---- MODULE Spec2Model ----
(***************************************************************************)
(* scripts/backup_db.py of EDRmount: one backup run (online copy of the    *)
(* SQLite database into <out_dir>/edrmount.db.<ts>.tmp, rename to .sqlite, *)
(* gzip to .sqlite.gz, removal of the .sqlite, rotation keeping the newest *)
(* N compressed backups), as a state machine over the output directory.    *)
(*                                                                         *)
(* File names are sequences of one-character strings, so that startswith,  *)
(* endswith and sorted() are computed on the characters as Python does.    *)
(* Each process slot is one invocation of main(); pc is the line of        *)
(* backup_db.py the invocation is about to execute.                        *)
(***************************************************************************)
EXTENDS Integers, Sequences, FiniteSets, TLC

\* ---------------------------------------------------------------- bounds
\* the clock reads FirstSecond .. FirstSecond + MaxTicks
MaxTicks == 2
\* retention counts tried: 0 .. MaxKeep, besides a negative and a non-number
MaxKeep == 2
\* number of invocations of main() in one behaviour
MaxRuns == 2

Procs == {"A", "B"}

\* seconds after midnight at which the behaviours start: 00:00:09, so that
\* the seconds field goes from one digit to two
FirstSecond == 10 - 1

ClockValues == FirstSecond .. (FirstSecond + MaxTicks)

\* ------------------------------------------------------------ characters
\* the characters that occur in the names, in ASCII order
Alphabet ==
    << "-", ".", "0", "1", "2", "3", "4", "5", "6", "7", "8", "9",
       "a", "b", "c", "d", "e", "f", "g", "h", "i", "j", "k", "l", "m",
       "n", "o", "p", "q", "r", "s", "t", "u", "v", "w", "x", "y", "z" >>

Ord(c) == CHOOSE i \in 1..Len(Alphabet) : Alphabet[i] = c

Digits == << "0", "1", "2", "3", "4", "5", "6", "7", "8", "9" >>

IsDigit(c) == \E i \in 1..Len(Digits) : Digits[i] = c

DigitValue(c) == (CHOOSE i \in 1..Len(Digits) : Digits[i] = c) - 1

Min(a, b) == IF a <= b THEN a ELSE b

Max(a, b) == IF a >= b THEN a ELSE b

\* str.startswith
StartsWith(s, pre) ==
    /\ Len(s) >= Len(pre)
    /\ SubSeq(s, 1, Len(pre)) = pre

\* str.endswith
EndsWith(s, suf) ==
    /\ Len(s) >= Len(suf)
    /\ SubSeq(s, Len(s) - Len(suf) + 1, Len(s)) = suf

\* Python's < on str: the first differing character decides, a proper
\* prefix is smaller
StrLess(a, b) ==
    \E i \in 1..(Min(Len(a), Len(b)) + 1) :
        /\ SubSeq(a, 1, i - 1) = SubSeq(b, 1, i - 1)
        /\ \/ i > Len(a) /\ i <= Len(b)
           \/ i <= Len(a) /\ i <= Len(b) /\ Ord(a[i]) < Ord(b[i])

\* ------------------------------------------------------- int(), strftime
RECURSIVE DigitsValue(_)
DigitsValue(s) ==
    IF s = << >> THEN 0
    ELSE 10 * DigitsValue(SubSeq(s, 1, Len(s) - 1)) + DigitValue(s[Len(s)])

AllDigits(s) == Len(s) > 0 /\ \A i \in 1..Len(s) : IsDigit(s[i])

\* int(text): an optional sign, then one or more decimal digits; anything
\* else raises ValueError (ok = FALSE)
ParseInt(s) ==
    IF Len(s) > 0 /\ s[1] = "-" /\ AllDigits(Tail(s))
        THEN [ok |-> TRUE, val |-> 0 - DigitsValue(Tail(s))]
    ELSE IF Len(s) > 0 /\ s[1] = "+" /\ AllDigits(Tail(s))
        THEN [ok |-> TRUE, val |-> DigitsValue(Tail(s))]
    ELSE IF AllDigits(s)
        THEN [ok |-> TRUE, val |-> DigitsValue(s)]
    ELSE [ok |-> FALSE, val |-> 0]

\* %H, %M, %S: two digits, zero padded
Pad2(n) == << Digits[((n \div 10) % 10) + 1], Digits[(n % 10) + 1] >>

\* str(n) for 0 <= n < 100
Str(n) == IF n < 10 THEN << Digits[n + 1] >> ELSE Pad2(n)

\* datetime.now().strftime('%Y%m%d-%H%M%S') at second t of 2026-01-01
Strftime(t) ==
    << "2", "0", "2", "6", "0", "1", "0", "1", "-" >>
        \o Pad2((t \div 3600) % 24) \o Pad2((t \div 60) % 60) \o Pad2(t % 60)

\* ------------------------------------------------------------ file names
Prefix == << "e", "d", "r", "m", "o", "u", "n", "t", ".", "d", "b", "." >>

GzSuffix == << ".", "s", "q", "l", "i", "t", "e", ".", "g", "z" >>

TmpName(t) == Prefix \o t \o << ".", "t", "m", "p" >>

FinalName(t) == Prefix \o t \o << ".", "s", "q", "l", "i", "t", "e" >>

GzName(t) == FinalName(t) \o << ".", "g", "z" >>

\* mutant of IsBackupName: the startswith test left out
IsBackupNameSuffixOnly(f) == EndsWith(f, GzSuffix)

\* the test of the rotation's list comprehension
IsBackupName(f) == StartsWith(f, Prefix) /\ EndsWith(f, GzSuffix)

\* two files of the output directory that are not backups of this script:
\* one has only the prefix, the other only the suffix
StrayPrefixed == Prefix \o << "b", "a", "k" >>

StraySuffixed == << "x" >> \o GzSuffix

\* ---------------------------------------------------------- file content
\* fmt: "db" an SQLite file, "gz" a gzip stream, "other" anything else
\* data: how much of the database the file holds: "empty", "partial", "complete"
\* whole: the gzip stream was written to its end and closed
Db(d) == [fmt |-> "db", data |-> d, whole |-> TRUE]

Gz(d, w) == [fmt |-> "gz", data |-> d, whole |-> w]

Other == [fmt |-> "other", data |-> "complete", whole |-> TRUE]

\* a handle that is not open, and a handle whose file lost its name
Closed == << >>

Orphan(d) == << "/", d >>

IsOrphan(h) == Len(h) > 0 /\ h[1] = "/"

\* ----------------------------------------------------- sorted(), slices
MaxName(S) == CHOOSE f \in S : \A g \in S : g = f \/ StrLess(g, f)

MinName(S) == CHOOSE f \in S : \A g \in S : g = f \/ StrLess(f, g)

\* mutant of SortDesc: sorted(S) without reverse=True, oldest first
RECURSIVE SortAscending(_)
SortAscending(S) ==
    IF S = {} THEN << >>
    ELSE LET m == MinName(S) IN << m >> \o SortAscending(S \ {m})

\* sorted(S, reverse=True)
RECURSIVE SortDesc(_)
SortDesc(S) ==
    IF S = {} THEN << >>
    ELSE LET m == MaxName(S) IN << m >> \o SortDesc(S \ {m})

\* mutant of SliceFrom: xs[k + 1:], one file too many kept
SliceFromSkipsOne(xs, k) ==
    LET start == IF k >= 0 THEN Min(k + 1, Len(xs)) ELSE Max(Len(xs) + k, 0)
    IN  SubSeq(xs, start + 1, Len(xs))

\* xs[k:]
SliceFrom(xs, k) ==
    LET start == IF k >= 0 THEN Min(k, Len(xs)) ELSE Max(Len(xs) + k, 0)
    IN  SubSeq(xs, start + 1, Len(xs))

Range(xs) == {xs[i] : i \in 1..Len(xs)}

\* the default of os.environ.get('EDRMOUNT_BACKUP_KEEP', '30')
DefaultKeep == 30

\* an environment variable that is not set
Unset == << "unset" >>

\* os.environ.get(name, default)
EnvGet(v, default) == IF v = Unset THEN default ELSE v

\* the values of EDRMOUNT_BACKUP_KEEP in the environment: not set, a small
\* count, a negative number, a text that is no number
KeepTexts ==
    {Unset} \cup {Str(n) : n \in 0..MaxKeep} \cup {<< "-", "1" >>, << "x" >>}

\* ------------------------------------------------------------------ state
VARIABLES
    srcExists,  \* os.path.exists(db_path)
    dirExists,  \* out_dir exists
    dir,        \* out_dir: file name -> content
    runs,       \* invocations started so far
    pc,         \* per invocation: the line about to execute, or its end
    keepText,   \* os.environ['EDRMOUNT_BACKUP_KEEP']
    keep,       \* keep
    ts,         \* ts
    con,        \* con is open
    bck,        \* the file bck has open, or Closed
    fin,        \* the file f_in has open, or Closed
    fout,       \* the file f_out has open, or Closed
    exc,        \* an exception is propagating through the finally blocks
    err,        \* the line whose exception (or die) ended the run, "" if none
    files,      \* the part of files[keep:] the loop has not visited yet
    out,        \* lines printed on standard output
    ckptFailed, \* the checkpoint raised (and was swallowed)
    pre,        \* history: what the invocation found when it started: out_dir,
                \* the database, and whether no other invocation was alive
                \* at any time of this one so far
    attempted,  \* history: the os.remove calls of the rotation loop
    delFailed   \* history: the names whose os.remove raised

procVars ==
    << pc, keepText, keep, ts, con, bck, fin, fout, exc, err, files, out,
       ckptFailed, pre, attempted, delFailed >>

vars == << srcExists, dirExists, dir, runs, procVars >>

tmp_out(p) == TmpName(ts[p])

final_out(p) == FinalName(ts[p])

final_gz(p) == GzName(ts[p])

Names == DOMAIN dir

\* the directory after os.remove / os.replace / a write through a handle
DirRemove(d, f) == [g \in (DOMAIN d) \ {f} |-> d[g]]

DirPut(d, f, c) == [g \in (DOMAIN d) \cup {f} |-> IF g = f THEN c ELSE d[g]]

DirWrite(d, h, c) == IF h \in DOMAIN d THEN DirPut(d, h, c) ELSE d

\* a handle after file f lost its name (os.remove, or f replaced)
Unlink(h, f, d) == IF h = f THEN Orphan(d[f].data) ELSE h

\* a handle after os.replace(a, b)
Retarget(h, a, b, d) ==
    IF h = b THEN Orphan(d[b].data) ELSE IF h = a THEN b ELSE h

BackupSet(d) == {f \in DOMAIN d : IsBackupName(f)}

\* an output directory in which only other people's files are
StrayDir ==
    [f \in {StrayPrefixed, StraySuffixed} |-> Other]

\* the same after a successful run one second before the first clock reading
UsedDir ==
    DirPut(StrayDir, GzName(Strftime(FirstSecond - 1)), Gz("complete", TRUE))

EmptyDir == [f \in {} |-> Other]

\* the invocation is between its start and its end
Alive(p) == pc[p] \notin {"idle", "done", "failed"}

\* pre of a slot that holds no invocation
NoHistory ==
    [exists |-> FALSE, dir |-> EmptyDir, src |-> FALSE, alone |-> TRUE]

Init ==
    /\ srcExists \in BOOLEAN
    /\ \/ dirExists = FALSE /\ dir = EmptyDir
       \/ dirExists = TRUE /\ dir \in {StrayDir, UsedDir}
    /\ runs = 0
    /\ pc = [p \in Procs |-> "idle"]
    /\ keepText = [p \in Procs |-> << >>]
    /\ keep = [p \in Procs |-> 0]
    /\ ts = [p \in Procs |-> << >>]
    /\ con = [p \in Procs |-> FALSE]
    /\ bck = [p \in Procs |-> Closed]
    /\ fin = [p \in Procs |-> Closed]
    /\ fout = [p \in Procs |-> Closed]
    /\ exc = [p \in Procs |-> FALSE]
    /\ err = [p \in Procs |-> ""]
    /\ files = [p \in Procs |-> << >>]
    /\ out = [p \in Procs |-> << >>]
    /\ ckptFailed = [p \in Procs |-> FALSE]
    /\ pre = [p \in Procs |-> NoHistory]
    /\ attempted = [p \in Procs |-> << >>]
    /\ delFailed = [p \in Procs |-> {}]

\* ---------------------------------------------------------------- actions
\* a new invocation of main() with some EDRMOUNT_BACKUP_KEEP in the environment
Begin(p) ==
    /\ pc[p] = "idle"
    /\ runs < MaxRuns
    /\ runs' = runs + 1
    /\ \E k \in KeepTexts :
          keepText' = [keepText EXCEPT ![p] = EnvGet(k, Str(DefaultKeep))]
    /\ pre' = [q \in Procs |->
                  IF q = p
                  THEN [exists |-> dirExists, dir |-> dir, src |-> srcExists,
                        alone |-> \A r \in Procs \ {p} : ~Alive(r)]
                  ELSE IF Alive(q) THEN [pre[q] EXCEPT !.alone = FALSE]
                  ELSE pre[q]]
    /\ pc' = [pc EXCEPT ![p] = "L13"]
    /\ UNCHANGED << srcExists, dirExists, dir, keep, ts, con, bck, fin, fout,
                    exc, err, files, out, ckptFailed, attempted, delFailed >>

\* runs that do not overlap: an invocation starts when no other is alive;
\* one slot serves them all
Start(p) ==
    /\ p = "A"
    /\ \A q \in Procs : pc[q] = "idle"
    /\ Begin(p)

\* line 13: keep = int(os.environ.get('EDRMOUNT_BACKUP_KEEP', '30'))
ParseKeep(p) ==
    /\ pc[p] = "L13"
    /\ LET r == ParseInt(keepText[p])
       IN  IF r.ok
           THEN /\ keep' = [keep EXCEPT ![p] = r.val]
                /\ pc' = [pc EXCEPT ![p] = "L15"]
           ELSE /\ keep' = keep
                /\ pc' = [pc EXCEPT ![p] = "failed"]
    /\ err' = [err EXCEPT ![p] = IF ParseInt(keepText[p]).ok THEN "" ELSE "L13"]
    /\ UNCHANGED << srcExists, dirExists, dir, runs, keepText, ts, con, bck,
                    fin, fout, exc, files, out, ckptFailed, pre, attempted,
                    delFailed >>

\* mutant of CheckSource: os.makedirs moved before the existence test
CheckSourceAfterMakeDirs(p) ==
    /\ pc[p] = "L15"
    /\ dirExists' = TRUE
    /\ pc' = [pc EXCEPT ![p] = IF srcExists THEN "L18" ELSE "failed"]
    /\ err' = [err EXCEPT ![p] = IF srcExists THEN "" ELSE "L16"]
    /\ UNCHANGED << srcExists, dir, runs, keepText, keep, ts, con, bck, fin,
                    fout, exc, files, out, ckptFailed, pre, attempted,
                    delFailed >>

\* lines 15-16: if not os.path.exists(db_path): die(...)
CheckSource(p) ==
    /\ pc[p] = "L15"
    /\ pc' = [pc EXCEPT ![p] = IF srcExists THEN "L18" ELSE "failed"]
    /\ err' = [err EXCEPT ![p] = IF srcExists THEN "" ELSE "L16"]
    /\ UNCHANGED << srcExists, dirExists, dir, runs, keepText, keep, ts, con,
                    bck, fin, fout, exc, files, out, ckptFailed, pre,
                    attempted, delFailed >>

\* line 18: os.makedirs(out_dir, exist_ok=True)
MakeDirs(p) ==
    /\ pc[p] = "L18"
    /\ dirExists' = TRUE
    /\ pc' = [pc EXCEPT ![p] = "L20"]
    /\ UNCHANGED << srcExists, dir, runs, keepText, keep, ts, con, bck, fin,
                    fout, exc, err, files, out, ckptFailed, pre, attempted,
                    delFailed >>

\* lines 20-23: ts = datetime.now().strftime(...); the local wall clock may
\* read any second, also one before an earlier reading
Timestamp(p) ==
    /\ pc[p] = "L20"
    /\ \E t \in ClockValues : ts' = [ts EXCEPT ![p] = Strftime(t)]
    /\ pc' = [pc EXCEPT ![p] = "L26"]
    /\ UNCHANGED << srcExists, dirExists, dir, runs, keepText, keep, con, bck,
                    fin, fout, exc, err, files, out, ckptFailed, pre,
                    attempted, delFailed >>

\* line 26: con = sqlite3.connect(db_path, timeout=30)
ConnectSource(p) ==
    /\ pc[p] = "L26"
    /\ con' = [con EXCEPT ![p] = TRUE]
    /\ pc' = [pc EXCEPT ![p] = "L28"]
    /\ UNCHANGED << srcExists, dirExists, dir, runs, keepText, keep, ts, bck,
                    fin, fout, exc, err, files, out, ckptFailed, pre,
                    attempted, delFailed >>

\* line 26 raises (the file cannot be opened): outside the try, nothing to close
ConnectSourceFail(p) ==
    /\ pc[p] = "L26"
    /\ pc' = [pc EXCEPT ![p] = "failed"]
    /\ err' = [err EXCEPT ![p] = "L26"]
    /\ UNCHANGED << srcExists, dirExists, dir, runs, keepText, keep, ts, con,
                    bck, fin, fout, exc, files, out, ckptFailed, pre,
                    attempted, delFailed >>

\* lines 28-32: busy_timeout, then the checkpoint inside try/except: pass
Checkpoint(p) ==
    /\ pc[p] = "L28"
    /\ pc' = [pc EXCEPT ![p] = "L34"]
    /\ UNCHANGED << srcExists, dirExists, dir, runs, keepText, keep, ts, con,
                    bck, fin, fout, exc, err, files, out, ckptFailed, pre,
                    attempted, delFailed >>

\* mutant of CheckpointFail: no try/except around the checkpoint
CheckpointFailRaises(p) ==
    /\ pc[p] = "L28"
    /\ ckptFailed' = [ckptFailed EXCEPT ![p] = TRUE]
    /\ exc' = [exc EXCEPT ![p] = TRUE]
    /\ err' = [err EXCEPT ![p] = "L30"]
    /\ pc' = [pc EXCEPT ![p] = "L40"]
    /\ UNCHANGED << srcExists, dirExists, dir, runs, keepText, keep, ts, con,
                    bck, fin, fout, files, out, pre, attempted, delFailed >>

\* lines 30-32: the checkpoint raises and the exception is swallowed
CheckpointFail(p) ==
    /\ pc[p] = "L28"
    /\ ckptFailed' = [ckptFailed EXCEPT ![p] = TRUE]
    /\ pc' = [pc EXCEPT ![p] = "L34"]
    /\ UNCHANGED << srcExists, dirExists, dir, runs, keepText, keep, ts, con,
                    bck, fin, fout, exc, err, files, out, pre, attempted,
                    delFailed >>

\* line 34: bck = sqlite3.connect(tmp_out), which creates the file if missing
ConnectTarget(p) ==
    /\ pc[p] = "L34"
    /\ dir' = IF tmp_out(p) \in Names THEN dir
              ELSE DirPut(dir, tmp_out(p), Db("empty"))
    /\ bck' = [bck EXCEPT ![p] = tmp_out(p)]
    /\ pc' = [pc EXCEPT ![p] = "L36"]
    /\ UNCHANGED << srcExists, dirExists, runs, keepText, keep, ts, con, fin,
                    fout, exc, err, files, out, ckptFailed, pre, attempted,
                    delFailed >>

\* mutant of ConnectTargetFail: no outer try/finally, con is never closed
ConnectTargetFailLeaks(p) ==
    /\ pc[p] = "L34"
    /\ exc' = [exc EXCEPT ![p] = TRUE]
    /\ err' = [err EXCEPT ![p] = "L34"]
    /\ pc' = [pc EXCEPT ![p] = "failed"]
    /\ UNCHANGED << srcExists, dirExists, dir, runs, keepText, keep, ts, con,
                    bck, fin, fout, files, out, ckptFailed, pre, attempted,
                    delFailed >>

\* line 34 raises: the outer finally (line 40) runs, then the exception goes on
ConnectTargetFail(p) ==
    /\ pc[p] = "L34"
    /\ exc' = [exc EXCEPT ![p] = TRUE]
    /\ err' = [err EXCEPT ![p] = "L34"]
    /\ pc' = [pc EXCEPT ![p] = "L40"]
    /\ UNCHANGED << srcExists, dirExists, dir, runs, keepText, keep, ts, con,
                    bck, fin, fout, files, out, ckptFailed, pre, attempted,
                    delFailed >>

\* line 36: con.backup(bck) copies the whole database into bck's file
Backup(p) ==
    /\ pc[p] = "L36"
    /\ dir' = DirWrite(dir, bck[p], Db("complete"))
    /\ pc' = [pc EXCEPT ![p] = "L38"]
    /\ UNCHANGED << srcExists, dirExists, runs, keepText, keep, ts, con, bck,
                    fin, fout, exc, err, files, out, ckptFailed, pre,
                    attempted, delFailed >>

\* line 36 raises (database locked past the timeout, I/O error): the file is
\* left short of a complete copy; the finally blocks run
BackupFail(p) ==
    /\ pc[p] = "L36"
    /\ dir' = DirWrite(dir, bck[p], Db("partial"))
    /\ exc' = [exc EXCEPT ![p] = TRUE]
    /\ err' = [err EXCEPT ![p] = "L36"]
    /\ pc' = [pc EXCEPT ![p] = "L38"]
    /\ UNCHANGED << srcExists, dirExists, runs, keepText, keep, ts, con, bck,
                    fin, fout, files, out, ckptFailed, pre, attempted,
                    delFailed >>

\* lines 37-38: finally: bck.close()
CloseTarget(p) ==
    /\ pc[p] = "L38"
    /\ bck' = [bck EXCEPT ![p] = Closed]
    /\ pc' = [pc EXCEPT ![p] = "L40"]
    /\ UNCHANGED << srcExists, dirExists, dir, runs, keepText, keep, ts, con,
                    fin, fout, exc, err, files, out, ckptFailed, pre,
                    attempted, delFailed >>

\* mutant of CloseSource: the exception of the copy is swallowed
CloseSourceSwallows(p) ==
    /\ pc[p] = "L40"
    /\ con' = [con EXCEPT ![p] = FALSE]
    /\ pc' = [pc EXCEPT ![p] = "L42"]
    /\ UNCHANGED << srcExists, dirExists, dir, runs, keepText, keep, ts, bck,
                    fin, fout, exc, err, files, out, ckptFailed, pre,
                    attempted, delFailed >>

\* lines 39-40: finally: con.close(); a propagating exception ends the run
CloseSource(p) ==
    /\ pc[p] = "L40"
    /\ con' = [con EXCEPT ![p] = FALSE]
    /\ pc' = [pc EXCEPT ![p] = IF exc[p] THEN "failed" ELSE "L42"]
    /\ UNCHANGED << srcExists, dirExists, dir, runs, keepText, keep, ts, bck,
                    fin, fout, exc, err, files, out, ckptFailed, pre,
                    attempted, delFailed >>

\* mutant of Replace: the temporary file is copied to final_out, not renamed
ReplaceCopies(p) ==
    /\ pc[p] = "L42"
    /\ IF tmp_out(p) \in Names
       THEN /\ dir' = DirPut(dir, final_out(p), dir[tmp_out(p)])
            /\ pc' = [pc EXCEPT ![p] = "L45"]
       ELSE /\ pc' = [pc EXCEPT ![p] = "failed"]
            /\ dir' = dir
    /\ err' = [err EXCEPT ![p] = IF tmp_out(p) \in Names THEN "" ELSE "L42"]
    /\ UNCHANGED << srcExists, dirExists, runs, keepText, keep, ts, con, bck,
                    fin, fout, exc, files, out, ckptFailed, pre, attempted,
                    delFailed >>

\* line 42: os.replace(tmp_out, final_out); FileNotFoundError without tmp_out
Replace(p) ==
    /\ pc[p] = "L42"
    /\ IF tmp_out(p) \in Names
       THEN /\ dir' = DirPut(DirRemove(dir, tmp_out(p)), final_out(p),
                             dir[tmp_out(p)])
            /\ bck' = [q \in Procs |->
                         Retarget(bck[q], tmp_out(p), final_out(p), dir)]
            /\ fin' = [q \in Procs |->
                         Retarget(fin[q], tmp_out(p), final_out(p), dir)]
            /\ fout' = [q \in Procs |->
                         Retarget(fout[q], tmp_out(p), final_out(p), dir)]
            /\ pc' = [pc EXCEPT ![p] = "L45"]
       ELSE /\ pc' = [pc EXCEPT ![p] = "failed"]
            /\ UNCHANGED << dir, bck, fin, fout >>
    /\ err' = [err EXCEPT ![p] = IF tmp_out(p) \in Names THEN "" ELSE "L42"]
    /\ UNCHANGED << srcExists, dirExists, runs, keepText, keep, ts, con, exc,
                    files, out, ckptFailed, pre, attempted, delFailed >>

\* line 45, first item of the with: open(final_out, 'rb')
OpenIn(p) ==
    /\ pc[p] = "L45"
    /\ IF final_out(p) \in Names
       THEN /\ fin' = [fin EXCEPT ![p] = final_out(p)]
            /\ pc' = [pc EXCEPT ![p] = "L45b"]
       ELSE /\ fin' = fin
            /\ pc' = [pc EXCEPT ![p] = "failed"]
    /\ err' = [err EXCEPT ![p] = IF final_out(p) \in Names THEN "" ELSE "L45"]
    /\ UNCHANGED << srcExists, dirExists, dir, runs, keepText, keep, ts, con,
                    bck, fout, exc, files, out, ckptFailed, pre, attempted,
                    delFailed >>

\* mutant of OpenOut: mode 'xb', which refuses a name that exists
OpenOutExclusive(p) ==
    /\ pc[p] = "L45b"
    /\ IF final_gz(p) \in Names
       THEN /\ dir' = dir
            /\ fout' = fout
            /\ fin' = [fin EXCEPT ![p] = Closed]
            /\ pc' = [pc EXCEPT ![p] = "failed"]
            /\ err' = [err EXCEPT ![p] = "L45"]
       ELSE /\ dir' = DirPut(dir, final_gz(p), Gz("empty", FALSE))
            /\ fout' = [fout EXCEPT ![p] = final_gz(p)]
            /\ fin' = fin
            /\ pc' = [pc EXCEPT ![p] = "L46"]
            /\ err' = err
    /\ UNCHANGED << srcExists, dirExists, runs, keepText, keep, ts, con, bck,
                    exc, files, out, ckptFailed, pre, attempted, delFailed >>

\* line 45, second item: gzip.open(final_gz, 'wb') creates or truncates the file
OpenOut(p) ==
    /\ pc[p] = "L45b"
    /\ dir' = DirPut(dir, final_gz(p), Gz("empty", FALSE))
    /\ fout' = [fout EXCEPT ![p] = final_gz(p)]
    /\ pc' = [pc EXCEPT ![p] = "L46"]
    /\ UNCHANGED << srcExists, dirExists, runs, keepText, keep, ts, con, bck,
                    fin, exc, err, files, out, ckptFailed, pre, attempted,
                    delFailed >>

\* what a read through handle h returns
ReadData(h) == IF IsOrphan(h) THEN h[2] ELSE dir[h].data

\* line 46 and the end of the with: the whole of f_in goes through gzip into
\* f_out, both are closed
Compress(p) ==
    /\ pc[p] = "L46"
    /\ dir' = DirWrite(dir, fout[p], Gz(ReadData(fin[p]), TRUE))
    /\ fin' = [fin EXCEPT ![p] = Closed]
    /\ fout' = [fout EXCEPT ![p] = Closed]
    /\ pc' = [pc EXCEPT ![p] = "L47"]
    /\ UNCHANGED << srcExists, dirExists, runs, keepText, keep, ts, con, bck,
                    exc, err, files, out, ckptFailed, pre, attempted,
                    delFailed >>

\* mutant of CompressFail: a cleanup that removes final_out as well
CompressFailRemovesSnapshot(p) ==
    /\ pc[p] = "L46"
    /\ dir' = DirRemove(DirWrite(dir, fout[p], Gz("partial", FALSE)),
                        final_out(p))
    /\ fin' = [fin EXCEPT ![p] = Closed]
    /\ fout' = [fout EXCEPT ![p] = Closed]
    /\ pc' = [pc EXCEPT ![p] = "failed"]
    /\ err' = [err EXCEPT ![p] = "L46"]
    /\ UNCHANGED << srcExists, dirExists, runs, keepText, keep, ts, con, bck,
                    exc, files, out, ckptFailed, pre, attempted, delFailed >>

\* mutant of CompressFail: the exception of line 46 swallowed, the run goes on
CompressFailIgnored(p) ==
    /\ pc[p] = "L46"
    /\ dir' = DirWrite(dir, fout[p], Gz("partial", FALSE))
    /\ fin' = [fin EXCEPT ![p] = Closed]
    /\ fout' = [fout EXCEPT ![p] = Closed]
    /\ pc' = [pc EXCEPT ![p] = "L47"]
    /\ UNCHANGED << srcExists, dirExists, runs, keepText, keep, ts, con, bck,
                    exc, err, files, out, ckptFailed, pre, attempted,
                    delFailed >>

\* line 46 raises partway (disk full, I/O error): the with closes both files
\* and the exception ends the run; nothing removes final_out or final_gz
CompressFail(p) ==
    /\ pc[p] = "L46"
    /\ dir' = DirWrite(dir, fout[p], Gz("partial", FALSE))
    /\ fin' = [fin EXCEPT ![p] = Closed]
    /\ fout' = [fout EXCEPT ![p] = Closed]
    /\ pc' = [pc EXCEPT ![p] = "failed"]
    /\ err' = [err EXCEPT ![p] = "L46"]
    /\ UNCHANGED << srcExists, dirExists, runs, keepText, keep, ts, con, bck,
                    exc, files, out, ckptFailed, pre, attempted, delFailed >>

\* the handles of every invocation after file f lost its name
UnlinkAll(h, f) == [q \in Procs |-> Unlink(h[q], f, dir)]

\* mutant of RemoveSnapshot: line 47 left out
RemoveSnapshotSkipped(p) ==
    /\ pc[p] = "L47"
    /\ pc' = [pc EXCEPT ![p] = "L49"]
    /\ UNCHANGED << srcExists, dirExists, dir, runs, keepText, keep, ts, con,
                    bck, fin, fout, exc, err, files, out, ckptFailed, pre,
                    attempted, delFailed >>

\* line 47: os.remove(final_out); FileNotFoundError without final_out
RemoveSnapshot(p) ==
    /\ pc[p] = "L47"
    /\ IF final_out(p) \in Names
       THEN /\ dir' = DirRemove(dir, final_out(p))
            /\ bck' = UnlinkAll(bck, final_out(p))
            /\ fin' = UnlinkAll(fin, final_out(p))
            /\ fout' = UnlinkAll(fout, final_out(p))
            /\ pc' = [pc EXCEPT ![p] = "L49"]
       ELSE /\ pc' = [pc EXCEPT ![p] = "failed"]
            /\ UNCHANGED << dir, bck, fin, fout >>
    /\ err' = [err EXCEPT ![p] = IF final_out(p) \in Names THEN "" ELSE "L47"]
    /\ UNCHANGED << srcExists, dirExists, runs, keepText, keep, ts, con, exc,
                    files, out, ckptFailed, pre, attempted, delFailed >>

\* mutant of RemoveSnapshotFail: the failure to remove final_out is ignored
RemoveSnapshotFailIgnored(p) ==
    /\ pc[p] = "L47"
    /\ pc' = [pc EXCEPT ![p] = "L49"]
    /\ UNCHANGED << srcExists, dirExists, dir, runs, keepText, keep, ts, con,
                    bck, fin, fout, exc, err, files, out, ckptFailed, pre,
                    attempted, delFailed >>

\* line 47 raises for another reason (permission denied)
RemoveSnapshotFail(p) ==
    /\ pc[p] = "L47"
    /\ pc' = [pc EXCEPT ![p] = "failed"]
    /\ err' = [err EXCEPT ![p] = "L47"]
    /\ UNCHANGED << srcExists, dirExists, dir, runs, keepText, keep, ts, con,
                    bck, fin, fout, exc, files, out, ckptFailed, pre,
                    attempted, delFailed >>

\* line 49: print(f"OK: {final_gz}")
Report(p) ==
    /\ pc[p] = "L49"
    /\ out' = [out EXCEPT ![p] = Append(out[p], final_gz(p))]
    /\ pc' = [pc EXCEPT ![p] = "L52"]
    /\ UNCHANGED << srcExists, dirExists, dir, runs, keepText, keep, ts, con,
                    bck, fin, fout, exc, err, files, ckptFailed, pre,
                    attempted, delFailed >>

\* mutant of ListDir: the backup just written is never a candidate
ListDirProtectsNew(p) ==
    /\ pc[p] = "L52"
    /\ files' = [files EXCEPT ![p] =
                    SliceFrom(SortDesc(BackupSet(dir) \ {final_gz(p)}), keep[p])]
    /\ pc' = [pc EXCEPT ![p] = "L56"]
    /\ UNCHANGED << srcExists, dirExists, dir, runs, keepText, keep, ts, con,
                    bck, fin, fout, exc, err, out, ckptFailed, pre, attempted,
                    delFailed >>

\* lines 52-56: files = sorted([...], reverse=True); the loop is over files[keep:]
ListDir(p) ==
    /\ pc[p] = "L52"
    /\ files' = [files EXCEPT ![p] =
                    SliceFrom(SortDesc(BackupSet(dir)), keep[p])]
    /\ pc' = [pc EXCEPT ![p] = "L56"]
    /\ UNCHANGED << srcExists, dirExists, dir, runs, keepText, keep, ts, con,
                    bck, fin, fout, exc, err, out, ckptFailed, pre, attempted,
                    delFailed >>

\* line 53 raises (os.listdir: the directory cannot be read), after the
\* success line was printed
ListDirFail(p) ==
    /\ pc[p] = "L52"
    /\ pc' = [pc EXCEPT ![p] = "failed"]
    /\ err' = [err EXCEPT ![p] = "L53"]
    /\ UNCHANGED << srcExists, dirExists, dir, runs, keepText, keep, ts, con,
                    bck, fin, fout, exc, files, out, ckptFailed, pre,
                    attempted, delFailed >>

\* mutant of RemoveOld: the loop visits the file and removes nothing
RemoveOldKeepsFile(p) ==
    /\ pc[p] = "L56"
    /\ files[p] # << >>
    /\ attempted' = [attempted EXCEPT ![p] = Append(attempted[p], Head(files[p]))]
    /\ files' = [files EXCEPT ![p] = Tail(files[p])]
    /\ UNCHANGED << srcExists, dirExists, dir, runs, pc, keepText, keep, ts,
                    con, bck, fin, fout, exc, err, out, ckptFailed, pre,
                    delFailed >>

\* lines 56-58: os.remove(os.path.join(out_dir, f)) for the next f; a file
\* that is gone raises FileNotFoundError, swallowed like any other exception
RemoveOld(p) ==
    /\ pc[p] = "L56"
    /\ files[p] # << >>
    /\ LET f == Head(files[p])
       IN  /\ attempted' = [attempted EXCEPT ![p] = Append(attempted[p], f)]
           /\ IF f \in Names
              THEN /\ dir' = DirRemove(dir, f)
                   /\ bck' = UnlinkAll(bck, f)
                   /\ fin' = UnlinkAll(fin, f)
                   /\ fout' = UnlinkAll(fout, f)
                   /\ delFailed' = delFailed
              ELSE /\ delFailed' =
                      [delFailed EXCEPT ![p] = delFailed[p] \cup {f}]
                   /\ UNCHANGED << dir, bck, fin, fout >>
    /\ files' = [files EXCEPT ![p] = Tail(files[p])]
    /\ UNCHANGED << srcExists, dirExists, runs, pc, keepText, keep, ts, con,
                    exc, err, out, ckptFailed, pre >>

\* mutant of RemoveOldFail: no try/except around os.remove
RemoveOldFailAborts(p) ==
    /\ pc[p] = "L56"
    /\ files[p] # << >>
    /\ attempted' = [attempted EXCEPT ![p] = Append(attempted[p], Head(files[p]))]
    /\ delFailed' = [delFailed EXCEPT ![p] = delFailed[p] \cup {Head(files[p])}]
    /\ pc' = [pc EXCEPT ![p] = "failed"]
    /\ err' = [err EXCEPT ![p] = "L58"]
    /\ UNCHANGED << srcExists, dirExists, dir, runs, keepText, keep, ts, con,
                    bck, fin, fout, exc, files, out, ckptFailed, pre >>

\* lines 57-60: os.remove raises (permission denied, ...): except Exception: pass
RemoveOldFail(p) ==
    /\ pc[p] = "L56"
    /\ files[p] # << >>
    /\ attempted' = [attempted EXCEPT ![p] = Append(attempted[p], Head(files[p]))]
    /\ delFailed' = [delFailed EXCEPT ![p] = delFailed[p] \cup {Head(files[p])}]
    /\ files' = [files EXCEPT ![p] = Tail(files[p])]
    /\ UNCHANGED << srcExists, dirExists, dir, runs, pc, keepText, keep, ts,
                    con, bck, fin, fout, exc, err, out, ckptFailed, pre >>

\* the loop is over: main() returns, exit status 0
Finish(p) ==
    /\ pc[p] = "L56"
    /\ files[p] = << >>
    /\ pc' = [pc EXCEPT ![p] = "done"]
    /\ UNCHANGED << srcExists, dirExists, dir, runs, keepText, keep, ts, con,
                    bck, fin, fout, exc, err, files, out, ckptFailed, pre,
                    attempted, delFailed >>

\* the process is gone; its slot can hold a later invocation
Exit(p) ==
    /\ pc[p] \in {"done", "failed"}
    /\ pc' = [pc EXCEPT ![p] = "idle"]
    /\ keepText' = [keepText EXCEPT ![p] = << >>]
    /\ keep' = [keep EXCEPT ![p] = 0]
    /\ ts' = [ts EXCEPT ![p] = << >>]
    /\ con' = [con EXCEPT ![p] = FALSE]
    /\ bck' = [bck EXCEPT ![p] = Closed]
    /\ fin' = [fin EXCEPT ![p] = Closed]
    /\ fout' = [fout EXCEPT ![p] = Closed]
    /\ exc' = [exc EXCEPT ![p] = FALSE]
    /\ err' = [err EXCEPT ![p] = ""]
    /\ files' = [files EXCEPT ![p] = << >>]
    /\ out' = [out EXCEPT ![p] = << >>]
    /\ ckptFailed' = [ckptFailed EXCEPT ![p] = FALSE]
    /\ pre' = [pre EXCEPT ![p] = NoHistory]
    /\ attempted' = [attempted EXCEPT ![p] = << >>]
    /\ delFailed' = [delFailed EXCEPT ![p] = {}]
    /\ UNCHANGED << srcExists, dirExists, dir, runs >>

\* between invocations the owner of the database creates or removes it
SourceChanges ==
    /\ \A p \in Procs : pc[p] = "idle"
    /\ srcExists' = ~srcExists
    /\ UNCHANGED << dirExists, dir, runs, procVars >>

Step(p) ==
    \/ ParseKeep(p)
    \/ CheckSource(p)
    \/ MakeDirs(p)
    \/ Timestamp(p)
    \/ ConnectSource(p)
    \/ ConnectSourceFail(p)
    \/ Checkpoint(p)
    \/ CheckpointFail(p)
    \/ ConnectTarget(p)
    \/ ConnectTargetFail(p)
    \/ Backup(p)
    \/ BackupFail(p)
    \/ CloseTarget(p)
    \/ CloseSource(p)
    \/ Replace(p)
    \/ OpenIn(p)
    \/ OpenOut(p)
    \/ Compress(p)
    \/ CompressFail(p)
    \/ RemoveSnapshot(p)
    \/ RemoveSnapshotFail(p)
    \/ Report(p)
    \/ ListDir(p)
    \/ ListDirFail(p)
    \/ RemoveOld(p)
    \/ RemoveOldFail(p)
    \/ Finish(p)
    \/ Exit(p)

\* invocations one after the other
Next ==
    \/ SourceChanges
    \/ \E p \in Procs : Start(p) \/ Step(p)

Spec == Init /\ [][Next]_vars

\* the steps of an invocation when no operation fails for a reason outside
\* the script
StepNoFault(p) ==
    \/ ParseKeep(p)
    \/ CheckSource(p)
    \/ MakeDirs(p)
    \/ Timestamp(p)
    \/ ConnectSource(p)
    \/ Checkpoint(p)
    \/ ConnectTarget(p)
    \/ Backup(p)
    \/ CloseTarget(p)
    \/ CloseSource(p)
    \/ Replace(p)
    \/ OpenIn(p)
    \/ OpenOut(p)
    \/ Compress(p)
    \/ RemoveSnapshot(p)
    \/ Report(p)
    \/ ListDir(p)
    \/ RemoveOld(p)
    \/ Finish(p)

\* an invocation starts whatever the other does; the slots are alike, so the
\* first to start takes slot "A"
Launch(p) ==
    /\ p = "B" => pc["A"] # "idle"
    /\ Begin(p)

\* two invocations, one per slot, that nothing keeps from overlapping
NextOverlap == \E p \in Procs : Launch(p) \/ StepNoFault(p)

SpecOverlap == Init /\ [][NextOverlap]_vars

\* ------------------------------------------------------------- properties
\* the Backup Set when the invocation started
PrevSet(p) == BackupSet(pre[p].dir)

\* the names the rotation of p lists: the Backup Set it found and its own
Listing(p) == PrevSet(p) \cup {final_gz(p)}

\* the n greatest names of S
Greatest(S, n) == {f \in S : Cardinality({g \in S : StrLess(f, g)}) < n}

NoDuplicates(xs) == \A i, j \in 1..Len(xs) : xs[i] = xs[j] => i = j

\* C1 as stated: after every successful run with N >= 0 the number of
\* matching files is min(N, previous_size + 1)
C1_AsStated ==
    \A p \in Procs :
        (pc[p] = "done" /\ keep[p] >= 0) =>
            Cardinality(BackupSet(dir))
                = Min(keep[p], Cardinality(PrevSet(p)) + 1)

\* C1 amended: after every successful run with N >= 0 in which no os.remove
\* of the rotation raised, the number of matching files is
\* min(N, size of the previous set together with the run's own name)
C1_RetainedCount ==
    \A p \in Procs :
        (pc[p] = "done" /\ keep[p] >= 0 /\ delFailed[p] = {}) =>
            Cardinality(BackupSet(dir))
                = Min(keep[p], Cardinality(Listing(p)))

\* a successful run with N = 1 that found two older backups and left one
C1_Witness ==
    \E p \in Procs :
        /\ pc[p] = "done"
        /\ keep[p] = 1
        /\ delFailed[p] = {}
        /\ Cardinality(PrevSet(p)) = 2
        /\ final_gz(p) \notin PrevSet(p)
        /\ BackupSet(dir) = {final_gz(p)}

\* C2: the rotation's delete set is the listed backups outside the N greatest
\* names (N >= 0): it is visited in full, nothing else disappears from the
\* Backup Set, every name in it is smaller than every kept name, and it is
\* empty when at most N backups are listed
C2_RotationDeletesOldest ==
    \A p \in Procs :
        (pc[p] = "done" /\ keep[p] >= 0) =>
            LET kept == Greatest(Listing(p), keep[p])
                del  == Listing(p) \ kept
            IN  /\ Range(attempted[p]) = del
                /\ Listing(p) \ BackupSet(dir) = del \ delFailed[p]
                /\ \A d \in del : \A k \in kept : StrLess(d, k)
                /\ Cardinality(kept) = Min(keep[p], Cardinality(Listing(p)))
                /\ (Cardinality(Listing(p)) <= keep[p] => del = {})

\* a run with N = 1 over three listed backups: the two older ones are deleted
C2_Witness ==
    \E p \in Procs :
        /\ pc[p] = "done"
        /\ keep[p] = 1
        /\ Cardinality(Listing(p)) = 3
        /\ Cardinality(Range(attempted[p])) = 2
        /\ Cardinality(BackupSet(dir)) = 1

\* C3 as stated: after every successful run exactly one Compressed Backup is
\* in the directory that was not there before, and neither the run's .tmp
\* nor its .sqlite
C3_AsStated ==
    \A p \in Procs :
        pc[p] = "done" =>
            /\ Cardinality(BackupSet(dir) \ PrevSet(p)) = 1
            /\ tmp_out(p) \notin Names
            /\ final_out(p) \notin Names

\* the run's compressed name is new and fewer than N backups found at the
\* start have a greater name (so N >= 1)
NewAndRetained(p) ==
    /\ final_gz(p) \notin PrevSet(p)
    /\ Cardinality({f \in PrevSet(p) : StrLess(final_gz(p), f)}) < keep[p]

\* C3 amended: after every successful run neither the run's .tmp nor its
\* .sqlite is in the directory; and if the run's compressed name was not
\* there before and fewer than N older backups have a greater name, exactly
\* one Compressed Backup is there that was not there before: the run's own,
\* complete
C3_OneNewBackupNoLeftover ==
    \A p \in Procs :
        pc[p] = "done" =>
            /\ tmp_out(p) \notin Names
            /\ final_out(p) \notin Names
            /\ NewAndRetained(p) =>
                   /\ BackupSet(dir) \ PrevSet(p) = {final_gz(p)}
                   /\ dir[final_gz(p)] = Gz("complete", TRUE)

\* a successful run that kept its own new backup beside an older one
C3_Witness ==
    \E p \in Procs :
        /\ pc[p] = "done"
        /\ NewAndRetained(p)
        /\ PrevSet(p) # {}
        /\ final_gz(p) \in Names

\* C4 as stated: with N = 0 no matching file is left after a (successful) run
C4_AsStated ==
    \A p \in Procs :
        (pc[p] = "done" /\ keep[p] = 0) => BackupSet(dir) = {}

\* C4 amended: with N = 0, after a successful run in which no os.remove of
\* the rotation raised, no matching file is left: the run's own backup is
\* deleted with the others
C4_ZeroKeepsNothing ==
    \A p \in Procs :
        (pc[p] = "done" /\ keep[p] = 0 /\ delFailed[p] = {}) =>
            /\ BackupSet(dir) = {}
            /\ final_gz(p) \in Range(attempted[p])

\* a run with N = 0 that deleted its own backup and an older one
C4_Witness ==
    \E p \in Procs :
        /\ pc[p] = "done"
        /\ keep[p] = 0
        /\ delFailed[p] = {}
        /\ PrevSet(p) \ {final_gz(p)} # {}
        /\ final_gz(p) \in Range(attempted[p])
        /\ BackupSet(dir) = {}

\* C5: while the Source Database is missing, an invocation gets no further
\* than the existence test, where it ends failed, and the output directory
\* is as it was when the invocation started: not created, no file touched
C5_MissingSourceNoSideEffect ==
    \A p \in Procs :
        (pc[p] # "idle" /\ ~srcExists) =>
            /\ pc[p] \in {"L13", "L15", "failed"}
            /\ pc[p] = "failed" => err[p] \in {"L13", "L16"}
            /\ dirExists = pre[p].exists
            /\ dir = pre[p].dir

\* a run that died on the missing database with no output directory
C5_Witness ==
    \E p \in Procs :
        /\ pc[p] = "failed"
        /\ err[p] = "L16"
        /\ ~srcExists
        /\ ~dirExists

\* C6: an os.remove that raises in the rotation never ends the run as failed,
\* and in a finished run (N >= 0) every listed file outside the N greatest
\* was passed to os.remove exactly once, whatever raised
C6_DeleteFailureNotFatal ==
    \A p \in Procs :
        /\ delFailed[p] # {} => pc[p] \in {"L56", "done"}
        /\ pc[p] = "L56" => err[p] = ""
        /\ (pc[p] = "done" /\ keep[p] >= 0) =>
               /\ NoDuplicates(attempted[p])
               /\ Range(attempted[p])
                      = Listing(p) \ Greatest(Listing(p), keep[p])

\* a finished run whose first os.remove raised and whose second one deleted
C6_Witness ==
    \E p \in Procs :
        /\ pc[p] = "done"
        /\ Len(attempted[p]) >= 2
        /\ attempted[p][1] \in delFailed[p]
        /\ attempted[p][1] \in Names
        /\ attempted[p][2] \notin delFailed[p]
        /\ attempted[p][2] \notin Names

\* C7 as stated: after a failed copy step (lines 34-36 raised) no .tmp of the
\* run is in the output directory
C7_AsStated ==
    \A p \in Procs :
        (pc[p] = "failed" /\ err[p] \in {"L26", "L34", "L36"}) =>
            tmp_out(p) \notin Names

\* C8: after a run that failed in the compression (line 46 raised) the
\* uncompressed snapshot is still there, a complete copy
C8_SnapshotKeptOnCompressFailure ==
    \A p \in Procs :
        (pc[p] = "failed" /\ err[p] = "L46") =>
            /\ final_out(p) \in Names
            /\ dir[final_out(p)] = Db("complete")

\* a run that failed in the compression
C8_Witness ==
    \E p \in Procs :
        /\ pc[p] = "failed"
        /\ err[p] = "L46"
        /\ final_out(p) \in Names

\* C9 as stated: at the end of every run every file matching the backup
\* pattern is a fully compressed backup
C9_AsStated ==
    \A p \in Procs :
        pc[p] \in {"done", "failed"} =>
            \A f \in BackupSet(dir) : dir[f].fmt = "gz" /\ dir[f].whole

\* C10 as stated: a retention text that is not a non-negative integer ends
\* the run at line 13, before any side effect
C10_AsStated ==
    \A p \in Procs :
        (pc[p] # "idle"
            /\ (~ParseInt(keepText[p]).ok \/ ParseInt(keepText[p]).val < 0)) =>
            /\ pc[p] \in {"L13", "failed"}
            /\ pc[p] = "failed" => err[p] = "L13"
            /\ ~con[p]
            /\ dirExists = pre[p].exists
            /\ dir = pre[p].dir

Ended(p) == pc[p] \in {"done", "failed"}

\* the run ended failed and printed no success line
FailedSilently(p) == pc[p] = "failed" /\ out[p] = << >>

\* the run printed its own final_gz, and that file is in the directory, a
\* complete gzip stream of a complete copy
ReportedBackupValid(p) ==
    /\ out[p] = << final_gz(p) >>
    /\ final_gz(p) \in Names
    /\ dir[final_gz(p)] = Gz("complete", TRUE)

\* fewer than N of the backups now in the directory have a greater name than
\* the run's own (so N >= 1): the rotation has no reason to delete it
OwnBackupRetained(p) ==
    Cardinality({f \in BackupSet(dir) : StrLess(final_gz(p), f)}) < keep[p]

\* C11 as stated: every run either ends failed without a success line, or
\* the Compressed Backup it reported is in the directory, valid and complete,
\* when the run ends
C11_AsStated ==
    \A p \in Procs :
        Ended(p) => FailedSilently(p) \/ ReportedBackupValid(p)

\* C11 amended: every run either ends failed without a success line, or it
\* printed the path of its own Compressed Backup, which is in the directory,
\* valid and complete, when the run ends unless the run's rotation had it in
\* its delete set (N = 0, or N backups with greater names)
C11_NoPartialSuccess ==
    \A p \in Procs :
        Ended(p) =>
            \/ FailedSilently(p)
            \/ /\ out[p] = << final_gz(p) >>
               /\ OwnBackupRetained(p) => ReportedBackupValid(p)

\* a run that exited 0, kept its backup beside an older one and deleted a third
C11_Witness ==
    \E p \in Procs :
        /\ pc[p] = "done"
        /\ OwnBackupRetained(p)
        /\ ReportedBackupValid(p)
        /\ attempted[p] # << >>

\* the retention count of the run, once its text is known to be one
ValidKeep(p) ==
    /\ pc[p] # "idle"
    /\ ParseInt(keepText[p]).ok
    /\ ParseInt(keepText[p]).val >= 0

IsSnapshotName(f) ==
    StartsWith(f, Prefix) /\ EndsWith(f, << ".", "s", "q", "l", "i", "t", "e" >>)

\* the run has its names and has not executed line 42, or the copy ended it
BeforeRename(p) ==
    \/ pc[p] \in {"L26", "L28", "L34", "L36", "L38", "L40", "L42"}
    \/ pc[p] = "failed" /\ err[p] \in {"L26", "L34", "L36"}

\* C13: in every state of non-overlapping runs (so wherever a run stops or
\* crashes) a file with a Snapshot Artifact name holds a complete copy; and
\* until line 42 has run, in particular after a failed copy, the run's
\* final_out is not in the directory unless it was there when the run started
C13_SnapshotNameOnlyWhenComplete ==
    /\ \A f \in Names : IsSnapshotName(f) => dir[f] = Db("complete")
    /\ \A p \in Procs :
           (BeforeRename(p) /\ final_out(p) \in Names) =>
               final_out(p) \in DOMAIN pre[p].dir

\* a run whose copy failed: its .tmp is there, short of complete, and its
\* .sqlite name is not
C13_Witness ==
    \E p \in Procs :
        /\ pc[p] = "failed"
        /\ err[p] = "L36"
        /\ tmp_out(p) \in Names
        /\ dir[tmp_out(p)] = Db("partial")
        /\ final_out(p) \notin Names

\* the run has left the snapshot step: it is at line 42 or later, or over
PastSnapshotStep(p) ==
    pc[p] \notin {"idle", "L13", "L15", "L18", "L20", "L26", "L28", "L34",
                  "L36", "L38", "L40"}

\* C14: once a run has left the snapshot step, by whatever path, neither the
\* source connection nor the copy-target connection is open: both are closed
\* before line 42 renames the temporary file and in every terminal state; and
\* the target connection is never open without the source connection
C14_ConnectionsClosed ==
    \A p \in Procs :
        /\ PastSnapshotStep(p) => ~con[p] /\ bck[p] = Closed
        /\ bck[p] # Closed => con[p]

\* a run ended by a copy that failed midway, with both connections closed
C14_Witness ==
    \E p \in Procs :
        /\ pc[p] = "failed"
        /\ err[p] = "L36"
        /\ ~con[p]
        /\ bck[p] = Closed

\* C15: each step of a run starts only when the one before it is complete:
\* the rename (line 42) finds a finished copy in the temporary file, the
\* compression (lines 45-46) the renamed snapshot, the removal (line 47) the
\* finished compressed file, the report (line 49) the snapshot gone, the
\* rotation (lines 52-60) the report printed; and a run that ended failed
\* has passed nothing to os.remove in a rotation and has taken no name out of
\* the Backup Set
C15_StepOrder ==
    \A p \in Procs :
        /\ pc[p] = "L42" =>
               tmp_out(p) \in Names /\ dir[tmp_out(p)] = Db("complete")
        /\ pc[p] \in {"L45", "L45b", "L46"} =>
               /\ tmp_out(p) \notin Names
               /\ final_out(p) \in Names
               /\ dir[final_out(p)] = Db("complete")
        /\ pc[p] \in {"L47", "L49"} =>
               final_gz(p) \in Names /\ dir[final_gz(p)] = Gz("complete", TRUE)
        /\ pc[p] = "L49" => final_out(p) \notin Names
        /\ pc[p] \in {"L13", "L15", "L18", "L20", "L26", "L28", "L34", "L36",
                      "L38", "L40", "L42", "L45", "L45b", "L46", "L47", "L49"}
               => out[p] = << >>
        /\ pc[p] \in {"L52", "L56", "done"} => out[p] = << final_gz(p) >>
        /\ attempted[p] # << >> => pc[p] \in {"L56", "done"}
        /\ pc[p] = "failed" =>
               attempted[p] = << >> /\ PrevSet(p) \subseteq BackupSet(dir)

\* a run that went through every step and pruned in its rotation
C15_Witness ==
    \E p \in Procs :
        /\ pc[p] = "done"
        /\ out[p] = << final_gz(p) >>
        /\ Len(attempted[p]) = 2
        /\ tmp_out(p) \notin Names
        /\ final_out(p) \notin Names

\* C16: a checkpoint that raised leaves no exception behind: the run is at
\* the online copy (line 34) or beyond, and if it fails it is on account of
\* a later line; it can end successfully with its Compressed Backup (the
\* witness)
C16_CheckpointBestEffort ==
    \A p \in Procs :
        ckptFailed[p] =>
            /\ pc[p] \notin {"idle", "L13", "L15", "L18", "L20", "L26", "L28"}
            /\ pc[p] = "L34" => ~exc[p] /\ err[p] = ""
            /\ exc[p] => err[p] \in {"L34", "L36"}
            /\ pc[p] = "failed" =>
                   err[p] \in {"L34", "L36", "L42", "L45", "L46", "L47", "L53"}

\* a run whose checkpoint raised and that ended successfully with its backup
C16_Witness ==
    \E p \in Procs :
        /\ ckptFailed[p]
        /\ pc[p] = "done"
        /\ final_gz(p) \in Names
        /\ dir[final_gz(p)] = Gz("complete", TRUE)

\* file f is not now what it was when invocation p started
Changed(p, f) ==
    \/ f \in Names /\ f \notin DOMAIN pre[p].dir
    \/ f \notin Names /\ f \in DOMAIN pre[p].dir
    \/ f \in Names /\ f \in DOMAIN pre[p].dir /\ dir[f] # pre[p].dir[f]

\* C17: while a run is alive and after it ended, the Source Database is as
\* the run found it, and a file of the output directory that is not as the
\* run found it is one of the run's three names, or has a name that starts
\* with edrmount.db. and ends with .sqlite.gz and was removed by the run's
\* rotation
C17_Frame ==
    \A p \in Procs :
        pc[p] # "idle" =>
            /\ srcExists = pre[p].src
            /\ \A f \in Names \cup DOMAIN pre[p].dir :
                   Changed(p, f) =>
                       \/ /\ ts[p] # << >>
                          /\ f \in {tmp_out(p), final_out(p), final_gz(p)}
                       \/ /\ StartsWith(f, Prefix)
                          /\ EndsWith(f, GzSuffix)
                          /\ f \notin Names
                          /\ f \in Range(attempted[p])

\* a run that pruned an older backup and left alone the two files of other
\* people and the .tmp that an earlier run left under another timestamp
C17_Witness ==
    \E p \in Procs :
        /\ pc[p] = "done"
        /\ \E f \in Range(attempted[p]) : f # final_gz(p) /\ f \notin Names
        /\ {StrayPrefixed, StraySuffixed} \subseteq Names
        /\ \E t \in ClockValues :
               /\ Strftime(t) # ts[p]
               /\ TmpName(Strftime(t)) \in Names

\* both invocations ended, each found the database and a keep that int() reads
BothEnded ==
    \A p \in Procs :
        /\ Ended(p)
        /\ pre[p].src
        /\ ParseInt(keepText[p]).ok

\* a run ended failed, or the directory holds a .tmp or .sqlite file, or a
\* file with a backup name that is not a complete gzip of a complete copy
FailedOrLeftover ==
    \/ \E p \in Procs : pc[p] = "failed"
    \/ \E f \in Names :
           \/ StartsWith(f, Prefix) /\ EndsWith(f, << ".", "t", "m", "p" >>)
           \/ IsSnapshotName(f)
           \/ IsBackupName(f) /\ dir[f] # Gz("complete", TRUE)

\* C18: with no operation failing for an outside reason, two runs of which
\* neither was alive during the other both end at the end of main() with
\* their success line printed, and leave no temporary, snapshot or incomplete
\* compressed file, whether or not they share a timestamp
C18_SerializedRunsSucceed ==
    (BothEnded /\ \A p \in Procs : pre[p].alone) =>
        /\ ~FailedOrLeftover
        /\ \A p \in Procs : pc[p] = "done" /\ out[p] = << final_gz(p) >>

\* two runs that overlapped and share a timestamp, of which one failed or
\* left a leftover or an incomplete file
C18_Witness ==
    /\ BothEnded
    /\ \A p \in Procs : ~pre[p].alone
    /\ ts["A"] = ts["B"]
    /\ FailedOrLeftover

\* the run took a timestamp whose Compressed Backup name was already in the
\* directory when it started
SameSecond(p) == ts[p] # << >> /\ final_gz(p) \in PrevSet(p)

\* C19: a run that does not overlap another and whose final_gz was already
\* there is not stopped by that: no step raises for a name that exists or is
\* missing; once line 45 has opened final_gz the earlier content is gone; at
\* the end of main() the file under that name, if the rotation left it, is
\* this run's complete backup, and every member of the Backup Set was a
\* member when the run started
C19_SameSecondOverwrites ==
    \A p \in Procs :
        SameSecond(p) =>
            /\ err[p] \notin {"L42", "L45"}
            /\ pc[p] = "L46" => dir[final_gz(p)] = Gz("empty", FALSE)
            /\ pc[p] = "done" =>
                   /\ out[p] = << final_gz(p) >>
                   /\ BackupSet(dir) \subseteq PrevSet(p)
                   /\ final_gz(p) \in Names =>
                          dir[final_gz(p)] = Gz("complete", TRUE)

\* a second run of one second has ended well over the complete backup of the
\* first, and the Backup Set is what it was
C19_Witness ==
    \E p \in Procs :
        /\ SameSecond(p)
        /\ pc[p] = "done"
        /\ pre[p].dir[final_gz(p)] = Gz("complete", TRUE)
        /\ final_gz(p) \in Names
        /\ BackupSet(dir) = PrevSet(p)

====
